---- MODULE Spec2Model ----
(***************************************************************************)
(* A model of the interactive file explorer of src/file_explorer.cpp: the  *)
(* FileExplorer object (its cursor currentPath), the filesystem it acts on *)
(* through POSIX calls, and one action per menu command of main().         *)
(*                                                                         *)
(* Strings are sequences of one-character strings: "/a/b" is               *)
(* <<"/","a","/","b">>.  A filesystem is a function from canonical node    *)
(* paths (sequences of names, the root being <<>>) to nodes.  The process  *)
(* runs as an unprivileged user "me"; nodes owned by "other" are reached   *)
(* through their other-class permission bits.                              *)
(***************************************************************************)
EXTENDS Integers, Sequences, FiniteSets, TLC

VARIABLES
    currentPath,  \* FileExplorer::currentPath
    fs,           \* the filesystem: node path -> [kind, mode, owner, data]
    dtypeHint,    \* whether readdir() of this filesystem fills in d_type
    last          \* the last command run: its arguments and what it returned

vars == <<currentPath, fs, dtypeHint, last>>

-----------------------------------------------------------------------------
(* Bounds of the model *)

\* the longest cursor the model lets changeDirectory build
MaxPathLen == 6
\* the most nodes (the root included) the filesystem may hold
MaxNodes == 4

-----------------------------------------------------------------------------
(* Strings *)

Dot == <<".">>
DotDot == <<".", ".">>
Slash == <<"/">>

\* std::string::npos
Npos == -1

\* std::string::find_last_of(ch): the 0-based position of the last ch, or npos
RECURSIVE FindLastOf(_, _)
FindLastOf(s, ch) ==
    IF s = <<>> THEN Npos
    ELSE IF s[Len(s)] = ch THEN Len(s) - 1
    ELSE FindLastOf(SubSeq(s, 1, Len(s) - 1), ch)

\* std::string::substr(0, pos)
Substr0(s, pos) == SubSeq(s, 1, pos)

\* path[0] of a const std::string: the character, or the terminating NUL
CharAt0(s) == IF s = <<>> THEN "NUL" ELSE s[1]

\* std::string::find(pattern) != npos: pattern occurs in name
Contains(name, pattern) ==
    \E i \in 0..(Len(name) - Len(pattern)) :
        SubSeq(name, i + 1, i + Len(pattern)) = pattern

\* the components of a path string, split at every '/'
RECURSIVE SplitFrom(_, _, _)
SplitFrom(s, done, cur) ==
    IF s = <<>> THEN Append(done, cur)
    ELSE IF Head(s) = "/" THEN SplitFrom(Tail(s), Append(done, cur), <<>>)
    ELSE SplitFrom(Tail(s), done, Append(cur, Head(s)))

Split(s) == SplitFrom(s, <<>>, <<>>)

-----------------------------------------------------------------------------
(* The filesystem the POSIX calls of the program act on *)

Root == <<>>
NoNode == [ok |-> FALSE, at |-> Root]
ParentOf(p) == IF p = Root THEN Root ELSE SubSeq(p, 1, Len(p) - 1)

HasBit(mode, bit) == (mode \div bit) % 2 = 1
\* permission check of the calling user: owner class for its own nodes,
\* other class for the rest (want: 4 read, 2 write, 1 search/execute)
Allowed(n, want) ==
    IF n.owner = "me" THEN HasBit(n.mode, want * 64) ELSE HasBit(n.mode, want)

Children(f, p) ==
    {q \in DOMAIN f : Len(q) = Len(p) + 1 /\ SubSeq(q, 1, Len(p)) = p}

\* kernel path walk: every component is looked up in a searchable directory
RECURSIVE Walk(_, _, _)
WalkStep(f, c, rest, cur) ==
    IF c = <<>> THEN Walk(f, rest, cur)
    ELSE IF ~Allowed(f[cur], 1) THEN NoNode
    ELSE IF c = Dot THEN Walk(f, rest, cur)
    ELSE IF c = DotDot THEN Walk(f, rest, ParentOf(cur))
    ELSE IF (cur \o <<c>>) \in DOMAIN f THEN Walk(f, rest, cur \o <<c>>)
    ELSE NoNode

Walk(f, comps, cur) ==
    IF comps = <<>> THEN [ok |-> TRUE, at |-> cur]
    ELSE IF f[cur].kind # "dir" THEN NoNode
    ELSE WalkStep(f, Head(comps), Tail(comps), cur)

\* the node an absolute path string names (every path the program passes to
\* a system call starts with currentPath or with a '/')
Resolve(f, s) ==
    IF s = <<>> \/ Head(s) # "/" THEN NoNode ELSE Walk(f, Split(s), Root)

\* a resolved path names a directory the calling user may search
IsSearchableDir(f, r) == r.ok /\ f[r.at].kind = "dir" /\ Allowed(f[r.at], 1)

\* chdir(path) == 0
Chdir(f, s) == IsSearchableDir(f, Resolve(f, s))

-----------------------------------------------------------------------------
(* What a command leaves in `last` *)

Ret(op, a1, a2, ok) ==
    [op |-> op, a1 |-> a1, a2 |-> a2, ok |-> ok, out |-> <<>>, fdlog |-> <<>>]

-----------------------------------------------------------------------------
(* changeDirectory *)

\* ParentPath without the test for the leading '/'
ParentPathNoRootTest(cur, pos) ==
    IF pos # Npos THEN Substr0(cur, pos) ELSE Slash

\* the parent changeDirectory computes for "..", pos being find_last_of('/')
ParentPath(cur, pos) ==
    IF pos # Npos /\ pos # 0 THEN Substr0(cur, pos) ELSE Slash

\* the path changeDirectory resolves its argument to
NewPath(cur, path) ==
    IF path = DotDot THEN ParentPath(cur, FindLastOf(cur, "/"))
    ELSE IF CharAt0(path) = "/" THEN path
    ELSE cur \o Slash \o path

\* ChangeDirectoryTo with currentPath assigned before chdir() is tested
ChangeDirectoryToUnchecked(cur, f, newPath) ==
    [cur |-> newPath, ok |-> Chdir(f, newPath)]

\* changeDirectory(path), newPath being the path it resolved: the cursor
\* afterwards and the value returned
ChangeDirectoryTo(cur, f, newPath) ==
    IF Chdir(f, newPath)
    THEN [cur |-> newPath, ok |-> TRUE]
    ELSE [cur |-> cur, ok |-> FALSE]

ChangeDirectoryResult(cur, f, path) == ChangeDirectoryTo(cur, f, NewPath(cur, path))

-----------------------------------------------------------------------------
(* The system calls that change the filesystem.  Each returns the           *)
(* filesystem afterwards and whether the call succeeded.                    *)

DirMode == 493    \* 0755
FileMode == 420   \* 0644
ModeMask == 4096  \* chmod keeps the low twelve bits (07777) of its argument

Fail(f) == [ok |-> FALSE, fs |-> f]
Done(f) == [ok |-> TRUE, fs |-> f]

RECURSIVE StripSlashes(_)
StripSlashes(s) ==
    IF s # <<>> /\ s[Len(s)] = "/"
    THEN StripSlashes(SubSeq(s, 1, Len(s) - 1))
    ELSE s

\* the last component of a path string t without trailing '/'s, pos being
\* the position of its last '/', in the directory d resolves to
Located(d, t, pos, slash) ==
    [ok |-> d.ok, dir |-> d.at, leaf |-> SubSeq(t, pos + 2, Len(t)),
     slash |-> slash, node |-> d.at \o <<SubSeq(t, pos + 2, Len(t))>>]

LocateStripped(f, s, t, pos) ==
    IF t = <<>> \/ pos = Npos
    THEN [ok |-> FALSE, dir |-> Root, leaf |-> <<>>, slash |-> FALSE, node |-> Root]
    ELSE Located(Resolve(f, SubSeq(t, 1, pos + 1)), t, pos, t # s)

LocateIn(f, s, t) == LocateStripped(f, s, t, FindLastOf(t, "/"))

\* the directory holding the last component of an absolute path string, the
\* component itself, the node it would name, and whether '/'s follow it;
\* not ok for the root
Locate(f, s) == LocateIn(f, s, StripSlashes(s))

\* the calling user may add and remove entries of directory d
MayModify(f, d) == Allowed(f[d], 1) /\ Allowed(f[d], 2)

NewNode(kind, mode) == [kind |-> kind, mode |-> mode, owner |-> "me", data |-> <<>>]

\* stat(path, &st) == 0
Stat(f, s) == Resolve(f, s).ok

MkdirAt(f, l) ==
    IF ~l.ok \/ l.leaf \in {Dot, DotDot} \/ ~Allowed(f[l.dir], 1)
       \/ l.node \in DOMAIN f \/ ~Allowed(f[l.dir], 2)
    THEN Fail(f)
    ELSE Done((l.node :> NewNode("dir", DirMode)) @@ f)

\* mkdir(path, 0755)
Mkdir(f, s) == MkdirAt(f, Locate(f, s))

NotOpened(f) == [ok |-> FALSE, fs |-> f, at |-> Root]

OpenWriteAt(f, r, l, trunc) ==
    IF r.ok
    THEN IF f[r.at].kind = "dir" \/ ~Allowed(f[r.at], 2) THEN NotOpened(f)
         ELSE [ok |-> TRUE, at |-> r.at,
               fs |-> IF trunc THEN [f EXCEPT ![r.at].data = <<>>] ELSE f]
    ELSE IF ~l.ok \/ l.slash \/ l.leaf \in {Dot, DotDot} \/ l.node \in DOMAIN f
            \/ ~MayModify(f, l.dir)
         THEN NotOpened(f)
         ELSE [ok |-> TRUE, at |-> l.node,
               fs |-> (l.node :> NewNode("file", FileMode)) @@ f]

\* open(path, O_WRONLY | O_CREAT [| O_TRUNC], 0644): the file opened is `at`
OpenWrite(f, s, trunc) == OpenWriteAt(f, Resolve(f, s), Locate(f, s), trunc)

\* the filesystem without node q
Without(f, q) == [p \in DOMAIN f \ {q} |-> f[p]]

RmdirAt(f, l) ==
    IF ~l.ok \/ l.leaf \in {Dot, DotDot} \/ ~Allowed(f[l.dir], 1)
       \/ l.node \notin DOMAIN f
    THEN Fail(f)
    ELSE IF f[l.node].kind # "dir" \/ Children(f, l.node) # {}
            \/ ~Allowed(f[l.dir], 2)
    THEN Fail(f)
    ELSE Done(Without(f, l.node))

\* rmdir(path)
Rmdir(f, s) == RmdirAt(f, Locate(f, s))

UnlinkAt(f, l) ==
    IF ~l.ok \/ l.slash \/ l.leaf \in {Dot, DotDot} \/ ~Allowed(f[l.dir], 1)
       \/ l.node \notin DOMAIN f
    THEN Fail(f)
    ELSE IF f[l.node].kind = "dir" \/ ~Allowed(f[l.dir], 2)
    THEN Fail(f)
    ELSE Done(Without(f, l.node))

\* unlink(path)
Unlink(f, s) == UnlinkAt(f, Locate(f, s))

IsPrefix(p, q) == Len(p) <= Len(q) /\ SubSeq(q, 1, Len(p)) = p

\* the filesystem with the subtree at sp moved to dp, replacing what dp held
MoveSubtree(f, sp, dp, moved) ==
    [q \in ((DOMAIN f \ moved) \ {dp})
           \cup {dp \o SubSeq(p, Len(sp) + 1, Len(p)) : p \in moved} |->
        IF IsPrefix(dp, q)
        THEN f[sp \o SubSeq(q, Len(dp) + 1, Len(q))]
        ELSE f[q]]

RenameAt(f, ls, ld) ==
    IF ~ls.ok \/ ~ld.ok \/ ls.leaf \in {Dot, DotDot} \/ ld.leaf \in {Dot, DotDot}
       \/ ~Allowed(f[ls.dir], 1) \/ ~Allowed(f[ld.dir], 1)
       \/ ls.node \notin DOMAIN f
    THEN Fail(f)
    ELSE IF f[ls.node].kind # "dir" /\ (ls.slash \/ ld.slash) THEN Fail(f)
    \* into its own subtree, or onto an ancestor
    ELSE IF ls.node # ld.node
            /\ (IsPrefix(ls.node, ld.node) \/ IsPrefix(ld.node, ls.node))
    THEN Fail(f)
    \* the same file: nothing to do
    ELSE IF ls.node = ld.node THEN Done(f)
    ELSE IF ~Allowed(f[ls.dir], 2) \/ ~Allowed(f[ld.dir], 2) THEN Fail(f)
    ELSE IF ld.node \in DOMAIN f /\ f[ls.node].kind = "dir"
            /\ (f[ld.node].kind # "dir" \/ Children(f, ld.node) # {})
    THEN Fail(f)
    ELSE IF ld.node \in DOMAIN f /\ f[ls.node].kind # "dir"
            /\ f[ld.node].kind = "dir"
    THEN Fail(f)
    ELSE IF f[ls.node].kind = "dir" /\ ls.dir # ld.dir /\ ~Allowed(f[ls.node], 2)
    THEN Fail(f)
    ELSE Done(MoveSubtree(f, ls.node, ld.node,
                          {p \in DOMAIN f : IsPrefix(ls.node, p)}))

\* rename(src, dest)
Rename(f, s, d) == RenameAt(f, Locate(f, s), Locate(f, d))

ChmodAt(f, r, mode) ==
    IF ~r.ok \/ f[r.at].owner # "me" THEN Fail(f)
    ELSE Done([f EXCEPT ![r.at].mode = mode % ModeMask])

\* chmod(path, mode)
Chmod(f, s, mode) == ChmodAt(f, Resolve(f, s), mode)

IsReadableDir(f, r) == r.ok /\ f[r.at].kind = "dir" /\ Allowed(f[r.at], 4)

\* opendir(path) != NULL
Opendir(f, s) == IsReadableDir(f, Resolve(f, s))

-----------------------------------------------------------------------------
(* createDirectory, createFile, deleteItem, moveFile *)

FullPath(cur, name) == cur \o Slash \o name

CreateDirectoryResult(cur, f, name) == Mkdir(f, FullPath(cur, name))

Forget(o) == [ok |-> o.ok, fs |-> o.fs]

CreateFileResult(cur, f, name) == Forget(OpenWrite(f, FullPath(cur, name), FALSE))

DeleteItemAt(f, fullPath, st) ==
    IF ~st.ok THEN Fail(f)
    ELSE IF f[st.at].kind = "dir" THEN Rmdir(f, fullPath)
    ELSE Unlink(f, fullPath)

DeleteItemResult(cur, f, name) ==
    DeleteItemAt(f, FullPath(cur, name), Resolve(f, FullPath(cur, name)))

MoveFileResult(cur, f, src, dest) ==
    Rename(f, FullPath(cur, src), FullPath(cur, dest))

-----------------------------------------------------------------------------
(* changePermissions *)

\* the character codes of the characters permission strings are drawn from
CharCode(c) ==
    CASE c = "0" -> 48 [] c = "1" -> 49 [] c = "2" -> 50 [] c = "3" -> 51
      [] c = "4" -> 52 [] c = "5" -> 53 [] c = "6" -> 54 [] c = "7" -> 55
      [] c = "8" -> 56 [] c = "9" -> 57 [] c = "x" -> 120

\* a | b on non-negative integers
RECURSIVE BitOr(_, _)
BitOr(a, b) ==
    IF a = 0 THEN b
    ELSE IF b = 0 THEN a
    ELSE (IF a % 2 = 1 \/ b % 2 = 1 THEN 1 ELSE 0) + 2 * BitOr(a \div 2, b \div 2)

\* ((perms[0] - '0') << 6) | ((perms[1] - '0') << 3) | (perms[2] - '0')
ParseMode(perms) ==
    BitOr(BitOr((CharCode(perms[1]) - CharCode("0")) * 64,
                (CharCode(perms[2]) - CharCode("0")) * 8),
          CharCode(perms[3]) - CharCode("0"))

Called(c) == [ok |-> c.ok, fs |-> c.fs, called |-> TRUE]

\* changePermissions(name, perms); called says whether chmod was invoked
ChangePermissionsResult(cur, f, name, perms) ==
    IF Len(perms) = 3
    THEN Called(Chmod(f, FullPath(cur, name), ParseMode(perms)))
    ELSE [ok |-> FALSE, fs |-> f, called |-> FALSE]

-----------------------------------------------------------------------------
(* searchFiles and searchInDirectory *)

\* a directory as readdir() yields it: ".", "..", then its entries in the
\* order ord the filesystem keeps them in
Readdir(f, at, ord) ==
    <<Dot, DotDot>> \o SelectSeq(ord, LAMBDA n : (at \o <<n>>) \in DOMAIN f)

\* entry->d_type == DT_DIR: the hint is DT_UNKNOWN on a filesystem that does
\* not fill it in
DTypeIsDir(f, hint, q) == hint /\ f[q].kind = "dir"

RECURSIVE SearchInDirectory(_, _, _, _, _, _)
RECURSIVE ReaddirLoop(_, _, _, _, _, _, _)

\* one entry of the while loop: results after the match test and the descent
Visit(f, hint, ord, fullPath, pattern, q, matched) ==
    IF DTypeIsDir(f, hint, q)
    THEN SearchInDirectory(f, hint, ord, fullPath, pattern, matched)
    ELSE matched

Matched(name, fullPath, pattern, results) ==
    IF Contains(name, pattern) THEN Append(results, fullPath) ELSE results

\* the while loop of searchInDirectory over the entries left to read of the
\* directory node at
ReaddirLoop(f, hint, ord, path, pattern, entries, results) ==
    IF entries = <<>> THEN results
    ELSE IF Head(entries) = Dot \/ Head(entries) = DotDot
    THEN ReaddirLoop(f, hint, ord, path, pattern, Tail(entries), results)
    ELSE ReaddirLoop(f, hint, ord, path, pattern, Tail(entries),
             Visit(f, hint, ord, path \o Slash \o Head(entries), pattern,
                   Resolve(f, path).at \o <<Head(entries)>>,
                   Matched(Head(entries), path \o Slash \o Head(entries),
                           pattern, results)))

SearchInDirectory(f, hint, ord, path, pattern, results) ==
    IF ~Opendir(f, path) THEN results
    ELSE ReaddirLoop(f, hint, ord, path, pattern,
                     Readdir(f, Resolve(f, path).at, ord), results)

\* searchFiles(pattern): the result vector it prints
SearchFilesResult(cur, f, hint, ord, pattern) ==
    SearchInDirectory(f, hint, ord, cur, pattern, <<>>)

-----------------------------------------------------------------------------
(* copyFile and copyFileContents *)

BufSize == 4096   \* sizeof(buffer)
S_IFREG == 32768  \* the file-type bits stat() reports in st_mode of a regular file

\* the latest loop iteration (0-based) at which the model injects an I/O error
MaxFaultAt == 1

Min(a, b) == IF a <= b THEN a ELSE b

FdEvent(ev, fd) == [ev |-> ev, fd |-> fd]

\* What the operating system may do during one copy: which call fails, if
\* any (fault, in loop iteration at), how many bytes a read() returns at most
\* (chunk: read may return fewer bytes than asked for), and how many bytes
\* the failing write() got out (wrote; -1 when it reports an error).  A fault
\* in a later iteration is met after one-byte reads, one in the first
\* iteration after a read of a whole buffer.
CopyEnvs ==
    {e \in [fault : {"none", "srcOpen", "destOpen", "read", "write"},
            at : 0..MaxFaultAt, chunk : {1, BufSize}, wrote : {-1, 1}] :
        /\ e.fault \in {"none", "srcOpen", "destOpen"} => e.at = 0
        /\ e.fault \in {"srcOpen", "destOpen"} => e.chunk = 1
        /\ e.fault \in {"read", "write"} => (e.chunk = 1 <=> e.at > 0)
        /\ (e.fault # "write" \/ e.chunk = 1) => e.wrote = -1}

\* what read(srcFd, buffer, sizeof(buffer)) returns in iteration iter
ReadReturns(f, sn, off, iter, env) ==
    IF (env.fault = "read" /\ env.at = iter) \/ f[sn].kind = "dir" THEN -1
    ELSE IF Len(f[sn].data) - off <= 0 THEN 0
    ELSE Min(Min(env.chunk, BufSize), Len(f[sn].data) - off)

\* what write(destFd, buffer, bytesRead) returns in iteration iter
WriteReturns(bytesRead, iter, env) ==
    IF env.fault = "write" /\ env.at = iter
    THEN Min(env.wrote, bytesRead - 1)
    ELSE bytesRead

\* the destination after wrote bytes of the buffer read at off reached it
Written(f, sn, dn, off, wrote) ==
    IF wrote > 0
    THEN [f EXCEPT ![dn].data = @ \o SubSeq(f[sn].data, off + 1, off + wrote)]
    ELSE f

\* the while loop of copyFileContents from iteration iter on, the source
\* descriptor being at offset off: the filesystem afterwards, the value of
\* bytesRead when the loop was left, and whether a short write left it
RECURSIVE CopyLoop(_, _, _, _, _, _)
CopyStep(f, sn, dn, off, iter, env, bytesRead, wrote) ==
    IF bytesRead <= 0
    THEN [fs |-> f, bytesRead |-> bytesRead, short |-> FALSE]
    ELSE IF wrote # bytesRead
    THEN [fs |-> Written(f, sn, dn, off, wrote), bytesRead |-> bytesRead,
          short |-> TRUE]
    ELSE CopyLoop(Written(f, sn, dn, off, wrote), sn, dn, off + bytesRead,
                  iter + 1, env)

CopyIteration(f, sn, dn, off, iter, env, bytesRead) ==
    CopyStep(f, sn, dn, off, iter, env, bytesRead,
             WriteReturns(bytesRead, iter, env))

CopyLoop(f, sn, dn, off, iter, env) ==
    CopyIteration(f, sn, dn, off, iter, env, ReadReturns(f, sn, off, iter, env))

\* CloseOnShortWrite without close(srcFd)
CloseOnShortWriteLeak == <<FdEvent("close", "destFd")>>

\* the close() calls of each exit path of copyFileContents
CloseOnDestFailure == <<FdEvent("close", "srcFd")>>
CloseOnShortWrite == <<FdEvent("close", "srcFd"), FdEvent("close", "destFd")>>
CloseAtEnd == <<FdEvent("close", "srcFd"), FdEvent("close", "destFd")>>

OpenSrc == <<FdEvent("open", "srcFd")>>
OpenBoth == <<FdEvent("open", "srcFd"), FdEvent("open", "destFd")>>

\* copyFileContents once both descriptors are open and the loop has run
CopyFinished(loop) ==
    IF loop.short
    THEN [ok |-> FALSE, fs |-> loop.fs, fdlog |-> OpenBoth \o CloseOnShortWrite]
    ELSE [ok |-> loop.bytesRead = 0, fs |-> loop.fs, fdlog |-> OpenBoth \o CloseAtEnd]

\* copyFileContents once the source is open, d being the outcome of opening
\* the destination
CopyInto(f, sn, d, env) ==
    IF ~d.ok
    THEN [ok |-> FALSE, fs |-> f, fdlog |-> OpenSrc \o CloseOnDestFailure]
    ELSE CopyFinished(CopyLoop(d.fs, sn, d.at, 0, 0, env))

\* open(dest, O_WRONLY | O_CREAT | O_TRUNC, 0644), which the operating system
\* may also refuse for want of resources
OpenDest(f, dest, env) ==
    IF env.fault = "destOpen" THEN NotOpened(f) ELSE OpenWrite(f, dest, TRUE)

\* copyFileContents, s being what the source path resolves to
CopyFrom(f, s, dest, env) ==
    IF ~(s.ok /\ Allowed(f[s.at], 4) /\ env.fault # "srcOpen")
    THEN [ok |-> FALSE, fs |-> f, fdlog |-> <<>>]
    ELSE CopyInto(f, s.at, OpenDest(f, dest, env), env)

\* copyFileContents(src, dest): the value returned, the filesystem afterwards
\* and the descriptors opened and closed, in order
CopyFileContents(f, src, dest, env) == CopyFrom(f, Resolve(f, src), dest, env)

\* copyFile after copyFileContents returned c, st_mode being the source's
CopyFileEnd(c, destPath, st_mode) ==
    IF c.ok
    THEN [ok |-> TRUE, fs |-> Chmod(c.fs, destPath, st_mode).fs, fdlog |-> c.fdlog]
    ELSE [ok |-> FALSE, fs |-> c.fs, fdlog |-> c.fdlog]

\* copyFile after stat(srcPath, &srcStat) resolved the source to st
CopyFileStat(f, srcPath, destPath, st, env) ==
    IF ~st.ok \/ f[st.at].kind = "dir"
    THEN [ok |-> FALSE, fs |-> f, fdlog |-> <<>>]
    ELSE CopyFileEnd(CopyFileContents(f, srcPath, destPath, env), destPath,
                     S_IFREG + f[st.at].mode)

\* copyFile(src, dest)
CopyFileResult(cur, f, src, dest, env) ==
    CopyFileStat(f, FullPath(cur, src), FullPath(cur, dest),
                 Resolve(f, FullPath(cur, src)), env)

-----------------------------------------------------------------------------
(* The states the program starts in *)

Names == {<<"a">>, <<"b">>, <<"a", "b">>}

DirNode(owner, mode) == [kind |-> "dir", mode |-> mode, owner |-> owner, data |-> <<>>]
FileNode(owner, mode, data) == [kind |-> "file", mode |-> mode, owner |-> owner, data |-> data]

\* a root owned by the system and the user's own directory /a
HomeTree == (Root :> DirNode("other", DirMode)) @@ (<< <<"a">> >> :> DirNode("me", DirMode))

\* /a holds a file b of the user's
OwnFileTree ==
    (<< <<"a">>, <<"b">> >> :> FileNode("me", FileMode, <<1, 2>>)) @@ HomeTree

\* /a also holds a world-writable file ab of another user's
SharedFileTree ==
    (<< <<"a">>, <<"a", "b">> >> :> FileNode("other", 438, <<3>>)) @@ OwnFileTree

\* /a holds a directory b with a file ab in it
NestedTree ==
    (<< <<"a">>, <<"b">> >> :> DirNode("me", DirMode))
    @@ (<< <<"a">>, <<"b">>, <<"a", "b">> >> :> FileNode("me", FileMode, <<>>))
    @@ HomeTree

\* /a holds the directories b and ab, each with a file b in it, and a file a
SiblingsTree ==
    (<< <<"a">>, <<"b">> >> :> DirNode("me", DirMode))
    @@ (<< <<"a">>, <<"b">>, <<"b">> >> :> FileNode("me", FileMode, <<>>))
    @@ (<< <<"a">>, <<"a", "b">> >> :> DirNode("me", DirMode))
    @@ (<< <<"a">>, <<"a", "b">>, <<"b">> >> :> FileNode("me", FileMode, <<>>))
    @@ (<< <<"a">>, <<"a">> >> :> FileNode("me", FileMode, <<>>))
    @@ HomeTree

\* the absolute path getcwd() reports for a directory
RECURSIVE PathString(_)
PathString(p) ==
    IF p = Root THEN Slash
    ELSE IF Len(p) = 1 THEN Slash \o p[1]
    ELSE PathString(SubSeq(p, 1, Len(p) - 1)) \o Slash \o p[Len(p)]

\* what getcwd(cwd, sizeof(cwd)) may report when the program starts in a
\* filesystem f: the path of a directory, or failure
GetcwdOutcomes(f) ==
    {[ok |-> TRUE, cwd |-> PathString(p)] :
        p \in {q \in DOMAIN f : f[q].kind = "dir"}}
    \cup {[ok |-> FALSE, cwd |-> <<>>]}

\* ConstructorPath without the fallback to "/"
ConstructorPathNoFallback(got) == got.cwd

\* FileExplorer(): the cursor is getcwd(), or "/" when getcwd() fails
ConstructorPath(got) == IF got.ok THEN got.cwd ELSE Slash

Constructed(trees, hints) ==
    /\ fs \in trees
    /\ dtypeHint \in hints
    /\ currentPath \in {ConstructorPath(got) : got \in GetcwdOutcomes(fs)}
    /\ last = Ret("start", <<>>, <<>>, TRUE)

WithinBounds(f) == Cardinality(DOMAIN f) <= MaxNodes

-----------------------------------------------------------------------------
(* The menu commands of main(), each run with inputs from the given sets *)

\* case 3
ChangeDirectory(tokens) ==
    \E path \in tokens :
        LET r == ChangeDirectoryResult(currentPath, fs, path) IN
        /\ Len(r.cur) <= MaxPathLen
        /\ currentPath' = r.cur
        /\ last' = Ret("changeDirectory", path, <<>>, r.ok)
        /\ UNCHANGED <<fs, dtypeHint>>

\* case 5
CreateDirectory(names) ==
    \E name \in names :
        LET r == CreateDirectoryResult(currentPath, fs, name) IN
        /\ WithinBounds(r.fs)
        /\ fs' = r.fs
        /\ last' = Ret("createDirectory", name, <<>>, r.ok)
        /\ UNCHANGED <<currentPath, dtypeHint>>

\* case 6
CreateFile(names) ==
    \E name \in names :
        LET r == CreateFileResult(currentPath, fs, name) IN
        /\ WithinBounds(r.fs)
        /\ fs' = r.fs
        /\ last' = Ret("createFile", name, <<>>, r.ok)
        /\ UNCHANGED <<currentPath, dtypeHint>>

\* case 7
DeleteItem(names) ==
    \E name \in names :
        LET r == DeleteItemResult(currentPath, fs, name) IN
        /\ fs' = r.fs
        /\ last' = Ret("deleteItem", name, <<>>, r.ok)
        /\ UNCHANGED <<currentPath, dtypeHint>>

\* case 8
CopyFile(sources, dests, envs) ==
    \E src \in sources, dest \in dests, env \in envs :
        LET r == CopyFileResult(currentPath, fs, src, dest, env) IN
        /\ WithinBounds(r.fs)
        /\ fs' = r.fs
        /\ last' = [Ret("copyFile", src, dest, r.ok) EXCEPT !.fdlog = r.fdlog]
        /\ UNCHANGED <<currentPath, dtypeHint>>

\* case 9
MoveFile(names) ==
    \E src \in names, dest \in names :
        LET r == MoveFileResult(currentPath, fs, src, dest) IN
        /\ fs' = r.fs
        /\ last' = Ret("moveFile", src, dest, r.ok)
        /\ UNCHANGED <<currentPath, dtypeHint>>

\* case 10
SearchFiles(patterns, orders) ==
    \E pattern \in patterns, ord \in orders :
        /\ last' = [Ret("searchFiles", pattern, <<>>, TRUE) EXCEPT
                      !.out = SearchFilesResult(currentPath, fs, dtypeHint, ord, pattern)]
        /\ UNCHANGED <<currentPath, fs, dtypeHint>>

\* case 12
ChangePermissions(names, permStrings) ==
    \E name \in names, perms \in permStrings :
        LET r == ChangePermissionsResult(currentPath, fs, name, perms) IN
        /\ fs' = r.fs
        /\ last' = Ret("changePermissions", name, perms, r.ok)
        /\ UNCHANGED <<currentPath, dtypeHint>>

\* cases 1, 2, 4 and 11: listFiles, getCurrentPath and viewFileInfo print and
\* change nothing
ListFiles ==
    /\ last' = Ret("listFiles", <<>>, <<>>, Opendir(fs, currentPath))
    /\ UNCHANGED <<currentPath, fs, dtypeHint>>

ShowCurrentPath ==
    /\ last' = Ret("getCurrentPath", <<>>, <<>>, TRUE)
    /\ UNCHANGED <<currentPath, fs, dtypeHint>>

ViewFileInfo(names) ==
    \E name \in names :
        /\ last' = Ret("viewFileInfo", name, <<>>, Stat(fs, FullPath(currentPath, name)))
        /\ UNCHANGED <<currentPath, fs, dtypeHint>>

-----------------------------------------------------------------------------
(* The whole menu: navigation mixed with every other command *)

A == <<"a">>
B == <<"b">>
AB == <<"a", "b">>

CdTokens ==
    {DotDot, <<>>, Slash, A, B, <<"/", "a">>, <<"/", "a", "/">>,
     <<"a", "/", ".", ".">>}
NoFault == [fault |-> "none", at |-> 0, chunk |-> BufSize, wrote |-> -1]
AnOrder == <<A, B, AB>>

Init == Constructed({HomeTree, NestedTree}, {TRUE})

Next ==
    \/ ChangeDirectory(CdTokens)
    \/ CreateDirectory({B})
    \/ CreateFile({AB})
    \/ DeleteItem({B, <<>>})
    \/ CopyFile({B, AB}, {B, AB}, {NoFault})
    \/ MoveFile({B, AB})
    \/ SearchFiles({B}, {AnOrder})
    \/ ChangePermissions({A, DotDot}, {<<"0", "0", "0">>})
    \/ ListFiles
    \/ ShowCurrentPath
    \/ ViewFileInfo({A})

Spec == Init /\ [][Next]_vars

-----------------------------------------------------------------------------
(* Copying, with every name and every behaviour of the operating system *)

\* a source that is a file in /a, and one that is missing there and a
\* directory in /; a destination that is the source, and one that is new or
\* another user's file
CopySources == {A, B, AB}
CopyDests == {B, AB}

InitCopy == Constructed({OwnFileTree, SharedFileTree}, {TRUE})

NextCopy ==
    \/ CopyFile(CopySources, CopyDests, CopyEnvs)
    \/ ChangeDirectory({A, DotDot})
    \/ ChangePermissions({B}, {<<"0", "0", "0">>})

SpecCopy == InitCopy /\ [][NextCopy]_vars

-----------------------------------------------------------------------------
(* Searching, in every enumeration order, and changing permissions *)

Patterns == {<<>>, A, B, AB, <<"b", "a">>}
PermInputs ==
    {<<"7", "5", "5">>, <<"0", "0", "0">>, <<"7", "5">>, <<"7", "x", "5">>, <<>>}

\* the orders in which a directory may yield its entries
Orders ==
    {o \in [1..Cardinality(Names) -> Names] :
        \A n \in Names : \E i \in DOMAIN o : o[i] = n}

InitSearch == Constructed({HomeTree, NestedTree, SiblingsTree}, BOOLEAN)

NextSearch ==
    \/ SearchFiles(Patterns, Orders)
    \/ ChangeDirectory({A, B, DotDot})
    \/ ChangePermissions({B, AB}, PermInputs)

SpecSearch == InitSearch /\ [][NextSearch]_vars

-----------------------------------------------------------------------------
(* Navigation: the claims about changeDirectory and the cursor *)

\* the path s does not exist, is not a directory, or cannot be entered
Unreachable(f, s) ==
    \/ ~Resolve(f, s).ok
    \/ f[Resolve(f, s).at].kind # "dir"
    \/ ~Allowed(f[Resolve(f, s).at], 1)

\* C1: a changeDirectory whose resolved path does not exist, is not a
\* directory or cannot be entered returns false, and whenever changeDirectory
\* returns false the cursor is exactly what it was before the call.
C1_FailedNavigationKeepsCursor ==
    [][last'.op = "changeDirectory" =>
        /\ Unreachable(fs, NewPath(currentPath, last'.a1)) => ~last'.ok
        /\ ~last'.ok => currentPath' = currentPath]_vars

\* a changeDirectory to the missing relative path b has just failed in /a
C1_Witness ==
    /\ last.op = "changeDirectory" /\ ~last.ok /\ last.a1 = B
    /\ currentPath = <<"/", "a">>

\* C2: in every reachable state the cursor is non-empty and starts with '/'.
C2_CursorIsAbsolute == currentPath # <<>> /\ Head(currentPath) = "/"

\* a changeDirectory with the empty token has just succeeded, after other
\* commands, and left a cursor of several characters
C2_Witness ==
    /\ last.op = "changeDirectory" /\ last.ok /\ last.a1 = <<>>
    /\ Len(currentPath) > 3
    /\ fs \notin {HomeTree, NestedTree}

\* s without its last '/' and what follows it
RECURSIVE BeforeLastSeparator(_)
BeforeLastSeparator(s) ==
    IF s = <<>> THEN <<>>
    ELSE IF s[Len(s)] = "/" THEN SubSeq(s, 1, Len(s) - 1)
    ELSE BeforeLastSeparator(SubSeq(s, 1, Len(s) - 1))

\* the cursor cut at its last separator, the root when nothing is left
TruncatedAtLastSeparator(cur) ==
    IF BeforeLastSeparator(cur) = <<>> THEN Slash ELSE BeforeLastSeparator(cur)

\* C3: changeDirectory("..") succeeds exactly when the cursor cut at its last
\* separator can be entered, and then that is the new cursor; from /a/b it
\* leads to /a, from /a to /, and from / it succeeds and stays at /.
C3_DotDotWalksUpToRoot ==
    [][(last'.op = "changeDirectory" /\ last'.a1 = DotDot) =>
        /\ last'.ok <=> ~Unreachable(fs, TruncatedAtLastSeparator(currentPath))
        /\ last'.ok => currentPath' = TruncatedAtLastSeparator(currentPath)
        /\ (currentPath = <<"/", "a", "/", "b">> /\ last'.ok)
              => currentPath' = <<"/", "a">>
        /\ currentPath = <<"/", "a">> => (last'.ok /\ currentPath' = Slash)
        /\ currentPath = Slash => (last'.ok /\ currentPath' = Slash)]_vars

\* a changeDirectory("..") has just succeeded and the cursor is the root
C3_Witness ==
    last.op = "changeDirectory" /\ last.a1 = DotDot /\ last.ok /\ currentPath = Slash

\* C7: changeDirectory with the empty token returns false and leaves the
\* cursor as it was.
C7_EmptyTokenFailsFast ==
    [][(last'.op = "changeDirectory" /\ last'.a1 = <<>>) =>
        (~last'.ok /\ currentPath' = currentPath)]_vars

\* C11: whenever the cursor names an existing directory, however it was
\* stored (with a trailing separator, with ".." segments), a successful
\* changeDirectory("..") leaves a cursor that names the parent of that
\* directory, the parent of the root being the root.
C11_DotDotDenotesParent ==
    [][(/\ last'.op = "changeDirectory" /\ last'.a1 = DotDot /\ last'.ok
        /\ Resolve(fs, currentPath).ok) =>
        /\ Resolve(fs, currentPath').ok
        /\ Resolve(fs, currentPath').at
             = ParentOf(Resolve(fs, currentPath).at)]_vars

-----------------------------------------------------------------------------
(* Searching *)

\* the nodes below directory node d, at any depth
Descendants(f, d) == {q \in DOMAIN f : IsPrefix(d, q) /\ q # d}

NameOf(q) == q[Len(q)]

\* the absolute path of descendant q of the directory the cursor names,
\* root being the node of that directory
PathBelowCursor(root, q) ==
    currentPath \o PathString(SubSeq(q, Len(root) + 1, Len(q)))

Reported == {last.out[i] : i \in DOMAIN last.out}

\* C4: a search started at an existing directory reports, as a set, exactly
\* the absolute paths of the descendants whose name contains the pattern.
C4_SearchFindsExactlyTheMatches ==
    (last.op = "searchFiles" /\ ~Unreachable(fs, currentPath)) =>
        Reported =
            {PathBelowCursor(Resolve(fs, currentPath).at, q) :
                q \in {d \in Descendants(fs, Resolve(fs, currentPath).at) :
                          Contains(NameOf(d), last.a1)}}

\* every directory from the search root down to the parent of q can be opened
Covered(root, q) ==
    \A k \in Len(root)..(Len(q) - 1) :
        Opendir(fs, PathBelowCursor(root, SubSeq(q, 1, k)))

\* some directory the walk comes to cannot be opened
SomeDirectorySkipped(root) ==
    \E q \in Descendants(fs, root) :
        /\ fs[q].kind = "dir"
        /\ Covered(root, q)
        /\ ~Opendir(fs, PathBelowCursor(root, q))

\* C8: when the walk comes to a directory it cannot open, the search still
\* returns normally and reports exactly the matching descendants that do not
\* lie below a directory that cannot be opened.
C8_UnopenableDirectoryIsSkipped ==
    (/\ last.op = "searchFiles"
     /\ Opendir(fs, currentPath)
     /\ SomeDirectorySkipped(Resolve(fs, currentPath).at)) =>
        /\ last.ok
        /\ Reported =
            {PathBelowCursor(Resolve(fs, currentPath).at, q) :
                q \in {d \in Descendants(fs, Resolve(fs, currentPath).at) :
                          /\ Contains(NameOf(d), last.a1)
                          /\ Covered(Resolve(fs, currentPath).at, d)}}

-----------------------------------------------------------------------------
(* Changing permissions *)

Digits == {"0", "1", "2", "3", "4", "5", "6", "7", "8", "9"}

IsThreeDigitString(perms) ==
    Len(perms) = 3 /\ \A i \in 1..3 : perms[i] \in Digits

\* C6: changePermissions with a string that is not three digits returns
\* false and leaves every mode, and the rest of the filesystem, as it was.
C6_MalformedPermissionsRejected ==
    [][(last'.op = "changePermissions" /\ ~IsThreeDigitString(last'.a2)) =>
        (~last'.ok /\ fs' = fs)]_vars

-----------------------------------------------------------------------------
(* Copying *)

\* C5: when copyFile returns true, source and destination hold the same
\* bytes afterwards and the destination's mode is the mode the source had
\* when the copy started.
C5_CopyPreservesContentAndMode ==
    [][(last'.op = "copyFile" /\ last'.ok) =>
        /\ Resolve(fs, FullPath(currentPath, last'.a1)).ok
        /\ Resolve(fs', FullPath(currentPath, last'.a1)).ok
        /\ Resolve(fs', FullPath(currentPath, last'.a2)).ok
        /\ fs'[Resolve(fs', FullPath(currentPath, last'.a2)).at].data
             = fs'[Resolve(fs', FullPath(currentPath, last'.a1)).at].data
        /\ fs'[Resolve(fs', FullPath(currentPath, last'.a2)).at].mode
             = fs[Resolve(fs, FullPath(currentPath, last'.a1)).at].mode]_vars

\* how often descriptor fd is the subject of event ev in a log
Count(log, ev, fd) == Cardinality({i \in DOMAIN log : log[i] = FdEvent(ev, fd)})

\* C9: whatever way copyFileContents returns, each descriptor it opened has
\* been closed exactly once, after it was opened, and nothing else is closed.
C9_DescriptorsClosedExactlyOnce ==
    last.op = "copyFile" =>
        \A fd \in {"srcFd", "destFd"} :
            /\ Count(last.fdlog, "open", fd) <= 1
            /\ Count(last.fdlog, "close", fd) = Count(last.fdlog, "open", fd)
            /\ \A i \in DOMAIN last.fdlog :
                  last.fdlog[i] = FdEvent("close", fd) =>
                      \E j \in 1..(i - 1) : last.fdlog[j] = FdEvent("open", fd)

\* a copy has just failed after both descriptors were opened, leaving a
\* destination shorter than the source (a short write)
C9_Witness ==
    /\ last.op = "copyFile" /\ ~last.ok
    /\ Count(last.fdlog, "open", "destFd") = 1
    /\ \E d \in DOMAIN fs : fs[d].kind = "file" /\ Len(fs[d].data) = 1
          /\ fs[d].owner = "me"

\* C10: copyFile never changes the bytes of its source file, whatever the
\* destination names and whether or not it succeeds.
C10_CopyLeavesSourceContent ==
    [][(/\ last'.op = "copyFile"
        /\ Resolve(fs, FullPath(currentPath, last'.a1)).ok
        /\ fs[Resolve(fs, FullPath(currentPath, last'.a1)).at].kind = "file") =>
        /\ Resolve(fs, FullPath(currentPath, last'.a1)).at \in DOMAIN fs'
        /\ fs'[Resolve(fs, FullPath(currentPath, last'.a1)).at].data
             = fs[Resolve(fs, FullPath(currentPath, last'.a1)).at].data]_vars

====
